---- MODULE Spec2Model ----
(***************************************************************************)
(* Model of the shift-schedule ("Escala") engine of hospital-plataforma:   *)
(* generate_items_for_funcionario, admin_escalas_gerar,                    *)
(* admin_excluir_escala, admin_editar_funcionario and                      *)
(* admin_escala_editar_dia of src/app.py over the tables of src/models.py. *)
(*                                                                         *)
(* Strings are sequences of one-character strings, so that strip(),        *)
(* upper() and split("-") are computed and not assumed.  A datetime is the *)
(* number of minutes since 0001-01-01 00:00 of the proleptic calendar      *)
(* (date ordinal - 1) * 1440 + hour * 60 + minute.                         *)
(***************************************************************************)
EXTENDS Integers, Sequences, FiniteSets, TLC

VARIABLES funcionarios, escalas, itens, last, nOps, req, session

vars == <<funcionarios, escalas, itens, last, nOps, req, session>>

(***************************************************************************)
(* Bounds                                                                  *)
(***************************************************************************)
MaxOps == 3

(***************************************************************************)
(* Strings                                                                 *)
(***************************************************************************)
None == <<"None">>

Truthy(s) == s # None /\ s # <<>>

Whitespace == {" ", "\t"}

RECURSIVE LStrip(_)
LStrip(s) ==
    IF s # <<>> /\ Head(s) \in Whitespace THEN LStrip(Tail(s)) ELSE s

RECURSIVE RStrip(_)
RStrip(s) ==
    IF s # <<>> /\ s[Len(s)] \in Whitespace
    THEN RStrip(SubSeq(s, 1, Len(s) - 1))
    ELSE s

Strip(s) == RStrip(LStrip(s))

Lower == <<"a","b","c","d","e","f","g","h","i","j","k","l","m",
           "n","o","p","q","r","s","t","u","v","w","x","y","z">>

UpperOf == <<"A","B","C","D","E","F","G","H","I","J","K","L","M",
             "N","O","P","Q","R","S","T","U","V","W","X","Y","Z">>

UpperChar(c) ==
    IF \E i \in 1..26 : Lower[i] = c
    THEN UpperOf[CHOOSE i \in 1..26 : Lower[i] = c]
    ELSE c

Upper(s) == [i \in 1..Len(s) |-> UpperChar(s[i])]

\* s.split("-"): the list of the parts between the separators
RECURSIVE SplitDash(_, _, _)
SplitDash(s, cur, acc) ==
    IF s = <<>> THEN Append(acc, cur)
    ELSE IF Head(s) = "-" THEN SplitDash(Tail(s), <<>>, Append(acc, cur))
    ELSE SplitDash(Tail(s), Append(cur, Head(s)), acc)

Digits == <<"0","1","2","3","4","5","6","7","8","9">>

IsDigit(c) == \E i \in 1..10 : Digits[i] = c

DigitVal(c) == (CHOOSE i \in 1..10 : Digits[i] = c) - 1

RECURSIVE DecVal(_, _)
DecVal(s, acc) ==
    IF s = <<>> THEN acc ELSE DecVal(Tail(s), acc * 10 + DigitVal(Head(s)))

\* int(part) on a part that holds no "-": a value, or -1 where int() raises
ParseInt(s) ==
    LET t == Strip(s) IN
    IF t # <<>> /\ \A i \in 1..Len(t) : IsDigit(t[i]) THEN DecVal(t, 0) ELSE -1

S_SEG_SEX == <<"S","E","G","_","S","E","X">>
S_DIURNO == <<"D","I","U","R","N","O">>
S_DIARIO == <<"D","I","A","R","I","O">>
S_PLANTONISTA == <<"P","L","A","N","T","O","N","I","S","T","A","_","2","4","_","9","6">>
S_EXPEDIENTE == <<"E","X","P","E","D","I","E","N","T","E">>
S_FOLGA == <<"F","O","L","G","A">>
S_PLANTAO_24H == <<"P","L","A","N","T","A","O","_","2","4","H">>
S_ATIVO == <<"A","t","i","v","o">>
S_INATIVO == <<"I","n","a","t","i","v","o">>
S_UTI == <<"U","T","I">>
S_RH == <<"R","H">>

(***************************************************************************)
(* Calendar (datetime.date, calendar.monthrange)                           *)
(***************************************************************************)
IsLeap(y) == (y % 4 = 0 /\ y % 100 # 0) \/ y % 400 = 0

DaysInMonth(y, m) ==
    IF m = 2 THEN (IF IsLeap(y) THEN 29 ELSE 28)
    ELSE IF m \in {4, 6, 9, 11} THEN 30 ELSE 31

RECURSIVE DaysBeforeMonth(_, _)
DaysBeforeMonth(y, m) ==
    IF m <= 1 THEN 0 ELSE DaysBeforeMonth(y, m - 1) + DaysInMonth(y, m - 1)

DaysBeforeYear(y) ==
    (y - 1) * 365 + ((y - 1) \div 4) - ((y - 1) \div 100) + ((y - 1) \div 400)

\* faulty variant: the day is checked against 31 for every month
ValidDate_SemMes(y, m, d) ==
    /\ y \in 1..9999
    /\ m \in 1..12
    /\ d >= 1
    /\ d <= 31

\* date(y, m, d) raises ValueError outside these ranges
ValidDate(y, m, d) ==
    /\ y \in 1..9999
    /\ m \in 1..12
    /\ d >= 1
    /\ d <= DaysInMonth(y, m)

\* date(y, m, d).toordinal()
Ordinal(y, m, d) == DaysBeforeYear(y) + DaysBeforeMonth(y, m) + d

\* date.weekday(): Monday is 0
Weekday(ord) == (ord + 6) % 7

\* datetime.combine(d, time(h, mi))
Combine(ord, h, mi) == (ord - 1) * 1440 + h * 60 + mi

\* parse_date_yyyy_mm_dd: the ordinal of the date, or 0 for None
parse_date_yyyy_mm_dd(s) ==
    LET parts == SplitDash(s, <<>>, <<>>) IN
    IF Len(parts) # 3 THEN 0
    ELSE LET y == ParseInt(parts[1])
             m == ParseInt(parts[2])
             d == ParseInt(parts[3])
         IN IF y >= 0 /\ m >= 0 /\ d >= 0 /\ ValidDate(y, m, d)
            THEN Ordinal(y, m, d) ELSE 0

\* faulty variant: every month is given 31 days
month_range_31(ano, mes) == <<Ordinal(ano, mes, 1), Ordinal(ano, mes, 1) + 30>>

\* month_range: <<first_day, last_day>> as ordinals (called with mes in 1..12)
month_range(ano, mes) ==
    <<Ordinal(ano, mes, 1), Ordinal(ano, mes, DaysInMonth(ano, mes))>>

(***************************************************************************)
(* Tables.  funcionarios: id -> row; escalas: set of EscalaMes rows;       *)
(* itens: the EscalaItem table as a bag (row -> number of copies), the     *)
(* primary key left out so that duplicate rows stay visible.               *)
(***************************************************************************)
Copies(its, r) == IF r \in DOMAIN its THEN its[r] ELSE 0

AddItem(its, r) ==
    [x \in DOMAIN its \cup {r} |-> IF x = r THEN Copies(its, r) + 1 ELSE its[x]]

RemoveItem(its, r) ==
    [x \in {y \in DOMAIN its : y # r \/ its[y] > 1} |->
        IF x = r THEN its[x] - 1 ELSE its[x]]

EscalaItem(emid, fid, ini, fim, tipo, obs) ==
    [escala_mes_id |-> emid, funcionario_id |-> fid,
     inicio |-> ini, fim |-> fim, tipo |-> tipo, observacao |-> obs]

\* faulty variant: the delete of the earlier rows is left out
DeleteItens_Keep(its, emid, fid) == its

\* faulty variant: only the FOLGA rows of the pair are deleted
DeleteItens_SoFolga(its, emid, fid) ==
    [x \in {y \in DOMAIN its :
              ~(y.escala_mes_id = emid /\ y.funcionario_id = fid /\ y.tipo = S_FOLGA)}
        |-> its[x]]

\* faulty variant: the rows of the employee are deleted in every schedule month
DeleteItens_TodasEscalas(its, emid, fid) ==
    [x \in {y \in DOMAIN its : y.funcionario_id # fid} |-> its[x]]

\* faulty variant: the rows of the employee in the other schedule months are
\* deleted, the ones of this schedule month stay
DeleteItens_OutrasEscalas(its, emid, fid) ==
    [x \in {y \in DOMAIN its :
              ~(y.escala_mes_id # emid /\ y.funcionario_id = fid)} |-> its[x]]

\* EscalaItem.query.filter_by(escala_mes_id=..., funcionario_id=...).delete()
DeleteItens(its, emid, fid) ==
    [x \in {y \in DOMAIN its :
              ~(y.escala_mes_id = emid /\ y.funcionario_id = fid)} |-> its[x]]

\* escala_tipo = (func.escala_tipo or "SEG_SEX").strip().upper(), with the
\* fallback of the old imports
\* faulty variant: the stored value is upper-cased but not trimmed
NormEscalaTipo_SemStrip(raw) ==
    LET t == Upper(IF Truthy(raw) THEN raw ELSE S_SEG_SEX) IN
    IF t \in {S_DIURNO, S_DIARIO} THEN S_SEG_SEX ELSE t

NormEscalaTipo(raw) ==
    LET t == Upper(Strip(IF Truthy(raw) THEN raw ELSE S_SEG_SEX)) IN
    IF t \in {S_DIURNO, S_DIARIO} THEN S_SEG_SEX ELSE t

\* faulty variant: Saturday counted as a working day (weekday() <= 5)
SegSexItem_Sabado(emid, fid, d) ==
    IF Weekday(d) <= 5
    THEN EscalaItem(emid, fid, Combine(d, 8, 0), Combine(d, 17, 0), S_EXPEDIENTE, None)
    ELSE EscalaItem(emid, fid, Combine(d, 0, 0), Combine(d, 23, 59), S_FOLGA, None)

\* faulty variant: the working day starts at 09:00
SegSexItem_Nove(emid, fid, d) ==
    IF Weekday(d) <= 4
    THEN EscalaItem(emid, fid, Combine(d, 9, 0), Combine(d, 17, 0), S_EXPEDIENTE, None)
    ELSE EscalaItem(emid, fid, Combine(d, 0, 0), Combine(d, 23, 59), S_FOLGA, None)

\* one day of the SEG_SEX loop
SegSexItem(emid, fid, d) ==
    IF Weekday(d) <= 4
    THEN EscalaItem(emid, fid, Combine(d, 8, 0), Combine(d, 17, 0), S_EXPEDIENTE, None)
    ELSE EscalaItem(emid, fid, Combine(d, 0, 0), Combine(d, 23, 59), S_FOLGA, None)

CycleLen == 5

\* faulty variant: the delta_days >= 0 test is left out
PlantaoItem_SemSinal(emid, fid, d, base) ==
    LET delta_days == d - base IN
    IF delta_days % 5 = 0
    THEN EscalaItem(emid, fid, Combine(d, 7, 0), Combine(d, 7, 0) + 24 * 60,
                    S_PLANTAO_24H, None)
    ELSE EscalaItem(emid, fid, Combine(d, 0, 0), Combine(d, 23, 59), S_FOLGA, None)

\* one day of the PLANTONISTA_24_96 loop
PlantaoItem(emid, fid, d, base) ==
    LET delta_days == d - base IN
    IF delta_days >= 0 /\ delta_days % CycleLen = 0
    THEN EscalaItem(emid, fid, Combine(d, 7, 0), Combine(d, 7, 0) + 24 * 60,
                    S_PLANTAO_24H, None)
    ELSE EscalaItem(emid, fid, Combine(d, 0, 0), Combine(d, 23, 59), S_FOLGA, None)

\* the while loops: one db.session.add per day d, d += timedelta(days=1)
RECURSIVE SegSexLoop(_, _, _, _, _)
SegSexLoop(novos, emid, fid, d, fim_mes) ==
    IF d <= fim_mes
    THEN SegSexLoop(Append(novos, SegSexItem(emid, fid, d)), emid, fid, d + 1, fim_mes)
    ELSE novos

RECURSIVE PlantaoLoop(_, _, _, _, _, _)
PlantaoLoop(novos, emid, fid, d, fim_mes, base) ==
    IF d <= fim_mes
    THEN PlantaoLoop(Append(novos, PlantaoItem(emid, fid, d, base)),
                     emid, fid, d + 1, fim_mes, base)
    ELSE novos

\* the rows added to the session reach the table
AddAll(its, novos) ==
    [x \in DOMAIN its \cup {novos[i] : i \in DOMAIN novos} |->
        Copies(its, x) + Cardinality({i \in DOMAIN novos : novos[i] = x})]

\* faulty variant: the anchor is tested before the earlier rows are deleted
generate_items_sem_limpar(its, fid, func, emid, ano, mes) ==
    LET rng == month_range(ano, mes)
        cleared == DeleteItens(its, emid, fid)
        escala_tipo == NormEscalaTipo(func.escala_tipo)
        base == IF Truthy(func.plantao_base)
                THEN parse_date_yyyy_mm_dd(func.plantao_base) ELSE 0
    IN IF escala_tipo = S_SEG_SEX
       THEN AddAll(cleared, SegSexLoop(<<>>, emid, fid, rng[1], rng[2]))
       ELSE IF escala_tipo = S_PLANTONISTA
       THEN (IF base = 0 THEN its
             ELSE AddAll(cleared, PlantaoLoop(<<>>, emid, fid, rng[1], rng[2], base)))
       ELSE cleared

\* generate_items_for_funcionario, for a month month_range accepts
generate_items_for_funcionario(its, fid, func, emid, ano, mes) ==
    LET rng == month_range(ano, mes)
        cleared == DeleteItens(its, emid, fid)
        escala_tipo == NormEscalaTipo(func.escala_tipo)
        base == IF Truthy(func.plantao_base)
                THEN parse_date_yyyy_mm_dd(func.plantao_base) ELSE 0
    IN IF escala_tipo = S_SEG_SEX
       THEN AddAll(cleared, SegSexLoop(<<>>, emid, fid, rng[1], rng[2]))
       ELSE IF escala_tipo = S_PLANTONISTA
       THEN (IF base = 0 THEN cleared
             ELSE AddAll(cleared, PlantaoLoop(<<>>, emid, fid, rng[1], rng[2], base)))
       ELSE cleared

(***************************************************************************)
(* admin_escalas_gerar                                                     *)
(***************************************************************************)
\* setor_raw = (request.form.get("setor") or "").strip(); setor = setor_raw or None
NormSetor(raw) ==
    LET s == Strip(IF Truthy(raw) THEN raw ELSE <<>>) IN
    IF s # <<>> THEN s ELSE None

\* faulty variant: setor compared with "=" also when it is None, which no row satisfies
FindEscalas_IgualNull(escs, ano, mes, setor) ==
    {e \in escs : e.ano = ano /\ e.mes = mes /\ setor # None /\ e.setor = setor}

\* EscalaMes.query.filter_by(ano=ano, mes=mes, setor=setor): setor=None is
\* rendered as "setor IS NULL"
FindEscalas(escs, ano, mes, setor) ==
    {e \in escs : e.ano = ano /\ e.mes = mes /\ e.setor = setor}

\* the rowid SQLite gives an INTEGER PRIMARY KEY: one more than the largest
NextId(escs) ==
    IF escs = {} THEN 1
    ELSE (CHOOSE i \in {e.id : e \in escs} : \A e \in escs : e.id <= i) + 1

\* uq_escala_mes_ano_mes_setor: SQLite treats NULL setor values as distinct
UniqueViolation(escs, row) ==
    row.setor # None /\ FindEscalas(escs, row.ano, row.mes, row.setor) # {}

\* faulty variant: the status filter is missing
Selecionados_SemStatus(funcs, setor) ==
    {i \in DOMAIN funcs : setor # None => funcs[i].setor = setor}

\* Funcionario.query.filter_by(status="Ativo") [.filter(setor == setor)]
Selecionados(funcs, setor) ==
    {i \in DOMAIN funcs :
        /\ funcs[i].status = S_ATIVO
        /\ (setor # None => funcs[i].setor = setor)}

\* order_by(Funcionario.nome): the rows of the model are named in id order
RECURSIVE GerarTodos(_, _, _, _, _, _)
GerarTodos(its, sel, funcs, emid, ano, mes) ==
    IF sel = {} THEN its
    ELSE LET i == CHOOSE x \in sel : \A y \in sel : x <= y IN
         GerarTodos(generate_items_for_funcionario(its, i, funcs[i], emid, ano, mes),
                    sel \ {i}, funcs, emid, ano, mes)

ComItens(its, emid) ==
    {r.funcionario_id : r \in {x \in DOMAIN its : x.escala_mes_id = emid}}

NoArgs ==
    [ano |-> 0, mes |-> 0, setor |-> <<>>, em |-> 0, func |-> 0, dia |-> 0,
     tipo |-> <<>>, again |-> FALSE, pre |-> {}, loc |-> ""]

Gerar(ano, mes, setor_raw) ==
    /\ UNCHANGED session
    /\ LET setor == NormSetor(setor_raw)
           found == FindEscalas(escalas, ano, mes, setor)
           novo == [id |-> NextId(escalas), ano |-> ano, mes |-> mes, setor |-> setor]
           sel == Selecionados(funcionarios, setor)
           again == last.op = "gerar" /\ last.st = 302 /\ last.ano = ano
                    /\ last.mes = mes /\ last.setor = setor_raw
           \* history: the day edit this request follows, when the request
           \* before it was a successful day edit of the same schedule month
           apos(emid) == last.op = "editar_dia" /\ last.st = 200 /\ last.em = emid
           res(st, emid, pre) ==
               [NoArgs EXCEPT !.ano = ano, !.mes = mes, !.setor = setor_raw,
                              !.em = emid, !.again = again, !.pre = pre,
                              !.func = IF apos(emid) THEN last.func ELSE 0,
                              !.dia = IF apos(emid) THEN last.dia ELSE 0,
                              !.tipo = IF apos(emid) THEN last.tipo ELSE <<>>]
                   @@ [op |-> "gerar", st |-> st]
       IN /\ nOps < MaxOps
          /\ nOps' = nOps + 1
          /\ UNCHANGED <<funcionarios, req>>
          /\ IF found = {} /\ UniqueViolation(escalas, novo)
             THEN /\ UNCHANGED <<escalas, itens>>
                  /\ last' = res(500, 0, {})
             ELSE \E escala_mes \in (IF found = {} THEN {novo} ELSE found) :
                    /\ escalas' = escalas \cup {escala_mes}
                    /\ IF sel # {} /\ ~ValidDate(ano, mes, 1)
                       THEN /\ UNCHANGED itens
                            /\ last' = res(500, 0, {})
                       ELSE /\ itens' = GerarTodos(itens, sel, funcionarios,
                                                   escala_mes.id, ano, mes)
                            /\ last' = res(302, escala_mes.id,
                                           ComItens(itens, escala_mes.id))

(***************************************************************************)
(* admin_excluir_escala                                                    *)
(***************************************************************************)
\* faulty variant: the schedule month is deleted without its items
CascadeItens_Nada(its, emid) == its

\* cascade="all, delete-orphan" on EscalaMes.itens
CascadeItens(its, emid) ==
    [x \in {y \in DOMAIN its : y.escala_mes_id # emid} |-> its[x]]

ExcluirEscala(escala_mes_id) ==
    /\ UNCHANGED session
    /\ LET found == {e \in escalas : e.id = escala_mes_id}
           res(st) == [NoArgs EXCEPT !.em = escala_mes_id,
                                     !.pre = ComItens(itens, escala_mes_id)]
                          @@ [op |-> "excluir", st |-> st]
       IN /\ nOps < MaxOps
          /\ nOps' = nOps + 1
          /\ UNCHANGED <<funcionarios, req>>
          /\ IF found = {}
             THEN /\ UNCHANGED <<escalas, itens>>
                  /\ last' = res(404)
             ELSE /\ escalas' = escalas \ found
                  /\ itens' = CascadeItens(itens, escala_mes_id)
                  /\ last' = res(302)

(***************************************************************************)
(* admin_editar_funcionario (POST): the columns the schedule reads         *)
(***************************************************************************)
EditarFuncionario(id, form) ==
    /\ UNCHANGED session
    /\ LET res(st) == [NoArgs EXCEPT !.func = id]
                          @@ [op |-> "editar_funcionario", st |-> st]
       IN /\ nOps < MaxOps
          /\ nOps' = nOps + 1
          /\ UNCHANGED <<escalas, itens, req>>
          /\ IF id \notin DOMAIN funcionarios
             THEN /\ UNCHANGED funcionarios
                  /\ last' = res(404)
             ELSE /\ funcionarios' =
                        [funcionarios EXCEPT ![id] =
                            [status |-> form.status,
                             setor |-> form.setor,
                             escala_tipo |-> form.escala_tipo,
                             plantao_base |-> IF Truthy(form.plantao_base)
                                              THEN form.plantao_base ELSE None]]
                  /\ last' = res(302)

(***************************************************************************)
(* admin_escala_editar_dia                                                 *)
(***************************************************************************)
\* faulty variant: FERIAS, named in the comment of EscalaItem.tipo, let through
TIPOS_VALIDOS_Ferias ==
    {S_EXPEDIENTE, S_FOLGA, S_PLANTAO_24H, <<"F","E","R","I","A","S">>}

TIPOS_VALIDOS == {S_EXPEDIENTE, S_FOLGA, S_PLANTAO_24H}

\* the connect listener sets journal_mode, synchronous and busy_timeout and
\* leaves foreign_keys at SQLite's default, off
ForeignKeysOn == FALSE

\* faulty variant: the filter on funcionario_id is left out
ItensDoDia_SemFuncionario(its, emid, fid, inicio_dia, fim_dia) ==
    {r \in DOMAIN its :
        /\ r.escala_mes_id = emid
        /\ r.inicio >= inicio_dia
        /\ r.inicio < fim_dia}

\* faulty variant: the lookup is by the exact timestamp of the start of the day
ItensDoDia_Exato(its, emid, fid, inicio_dia, fim_dia) ==
    {r \in DOMAIN its :
        /\ r.escala_mes_id = emid
        /\ r.funcionario_id = fid
        /\ r.inicio = inicio_dia}

\* faulty variant: the two filters on inicio are left out
ItensDoDia_SemDia(its, emid, fid, inicio_dia, fim_dia) ==
    {r \in DOMAIN its : r.escala_mes_id = emid /\ r.funcionario_id = fid}

\* EscalaItem.query.filter(escala_mes_id).filter(funcionario_id)
\*     .filter(inicio >= inicio_dia).filter(inicio < fim_dia)
ItensDoDia(its, emid, fid, inicio_dia, fim_dia) ==
    {r \in DOMAIN its :
        /\ r.escala_mes_id = emid
        /\ r.funcionario_id = fid
        /\ r.inicio >= inicio_dia
        /\ r.inicio < fim_dia}

\* the shell created when the day has no item
Placeholder(emid, fid, inicio_dia) ==
    EscalaItem(emid, fid, inicio_dia, inicio_dia + 60, S_FOLGA, None)

\* faulty variant: item.tipo = novo_tipo is left out
AplicarTipo_SemTipo(item, d, novo_tipo) ==
    LET w == IF novo_tipo = S_EXPEDIENTE
             THEN <<Combine(d, 8, 0), Combine(d, 17, 0)>>
             ELSE IF novo_tipo = S_FOLGA
             THEN <<Combine(d, 0, 0), Combine(d, 23, 59)>>
             ELSE IF novo_tipo = S_PLANTAO_24H
             THEN <<Combine(d, 7, 0), Combine(d, 7, 0) + 24 * 60>>
             ELSE <<item.inicio, item.fim>>
    IN [item EXCEPT !.inicio = w[1], !.fim = w[2]]

\* faulty variant: only item.tipo is written, the window stays as found
AplicarTipo_SemJanela(item, d, novo_tipo) == [item EXCEPT !.tipo = novo_tipo]

\* item.inicio / item.fim / item.tipo for the new type on day d
AplicarTipo(item, d, novo_tipo) ==
    LET w == IF novo_tipo = S_EXPEDIENTE
             THEN <<Combine(d, 8, 0), Combine(d, 17, 0)>>
             ELSE IF novo_tipo = S_FOLGA
             THEN <<Combine(d, 0, 0), Combine(d, 23, 59)>>
             ELSE IF novo_tipo = S_PLANTAO_24H
             THEN <<Combine(d, 7, 0), Combine(d, 7, 0) + 24 * 60>>
             ELSE <<item.inicio, item.fim>>
    IN [item EXCEPT !.inicio = w[1], !.fim = w[2], !.tipo = novo_tipo]

EditarDia(escala_mes_id, funcionario_id, dia, tipo_raw) ==
    /\ UNCHANGED session
    /\ LET found == {e \in escalas : e.id = escala_mes_id}
           novo_tipo == Strip(IF Truthy(tipo_raw) THEN tipo_raw ELSE <<>>)
           res(st) == [NoArgs EXCEPT !.em = escala_mes_id, !.func = funcionario_id,
                                     !.dia = dia, !.tipo = tipo_raw,
                                     !.pre = ComItens(itens, escala_mes_id)]
                          @@ [op |-> "editar_dia", st |-> st]
       IN /\ nOps < MaxOps
          /\ nOps' = nOps + 1
          /\ UNCHANGED <<funcionarios, escalas, req>>
          /\ IF found = {}
             THEN /\ UNCHANGED itens
                  /\ last' = res(404)
             ELSE IF novo_tipo \notin TIPOS_VALIDOS
             THEN /\ UNCHANGED itens
                  /\ last' = res(400)
             ELSE \E escala \in found :
                  IF ~ValidDate(escala.ano, escala.mes, dia)
                  THEN /\ UNCHANGED itens
                       /\ last' = res(500)
                  ELSE LET d == Ordinal(escala.ano, escala.mes, dia)
                           inicio_dia == Combine(d, 0, 0)
                           fim_dia == inicio_dia + 24 * 60
                           achados == ItensDoDia(itens, escala.id, funcionario_id,
                                                 inicio_dia, fim_dia)
                       IN IF achados = {}
                          THEN IF ForeignKeysOn /\ funcionario_id \notin DOMAIN funcionarios
                               THEN /\ UNCHANGED itens
                                    /\ last' = res(500)
                               ELSE /\ itens' = AddItem(itens,
                                           AplicarTipo(Placeholder(escala.id, funcionario_id,
                                                                   inicio_dia), d, novo_tipo))
                                    /\ last' = res(200)
                          ELSE \E item \in achados :
                                 /\ itens' = AddItem(RemoveItem(itens, item),
                                                     AplicarTipo(item, d, novo_tipo))
                                 /\ last' = res(200)

(***************************************************************************)
(* Requests and specifications                                             *)
(***************************************************************************)
Funcionario(status, setor, escala_tipo, plantao_base) ==
    [status |-> status, setor |-> setor, escala_tipo |-> escala_tipo,
     plantao_base |-> plantao_base]

D_2026_01_01 == <<"2","0","2","6","-","0","1","-","0","1">>
D_2026_02_10 == <<"2","0","2","6","-","0","2","-","1","0">>
D_2026_02_30 == <<"2","0","2","6","-","0","2","-","3","0">>
D_BARRAS == <<"0","1","/","0","1","/","2","0","2","6">>
S_diurno == <<" ","d","i","u","r","n","o"," ">>
S_Diario == <<"D","i","a","r","i","o">>
S_NOTURNO == <<"N","O","T","U","R","N","O">>
S_FERIAS == <<"F","E","R","I","A","S">>
S_FOLGA_SP == <<" ","F","O","L","G","A"," ">>
S_UTI_SP == <<" ","U","T","I"," ">>

\* the rows an employee form can hold
Perfis ==
    { Funcionario(S_ATIVO, S_UTI, S_SEG_SEX, None),
      Funcionario(S_ATIVO, S_UTI, S_PLANTONISTA, D_2026_01_01),
      Funcionario(S_ATIVO, S_UTI, S_PLANTONISTA, D_2026_02_10),
      Funcionario(S_ATIVO, S_UTI, S_PLANTONISTA, <<>>),
      Funcionario(S_ATIVO, S_UTI, S_PLANTONISTA, D_2026_02_30),
      Funcionario(S_ATIVO, S_UTI, S_PLANTONISTA, D_BARRAS),
      Funcionario(S_ATIVO, S_UTI, S_diurno, None),
      Funcionario(S_ATIVO, S_UTI, S_Diario, None),
      Funcionario(S_ATIVO, S_UTI, <<>>, None),
      Funcionario(S_ATIVO, S_UTI, S_NOTURNO, D_2026_01_01),
      Funcionario(S_INATIVO, S_UTI, S_SEG_SEX, None) }

(***************************************************************************)
(* The Flask session of the client.  login() writes user_id, nome and      *)
(* funcao into it and logout() clears it; the handlers of the schedule     *)
(* engine only read it.  The letters of "Direção" and "Funcionário" that   *)
(* are outside ASCII are written as one named character each.              *)
(***************************************************************************)
S_DIRECAO == <<"D","i","r","e","c-cedilha","a-til","o">>
S_DIRECAO_ASCII == <<"D","i","r","e","c","a","o">>
S_FUNCIONARIO == <<"F","u","n","c","i","o","n","a-agudo","r","i","o">>

SessaoVazia == [k \in {} |-> 0]
SessaoDe(id, funcao) == [user_id |-> id, funcao |-> funcao]
SessaoDirecao == SessaoDe(1, S_DIRECAO)

\* session.get(key)
SessionGet(s, key) == IF key \in DOMAIN s THEN s[key] ELSE None

InitLast == NoArgs @@ [op |-> "init", st |-> 0]

\* the requests being served: two workers, none in flight at start
Procs == {1, 2}
IdleReq == [pc |-> "idle", op |-> "", ano |-> 0, mes |-> 0, setor |-> <<>>, em |-> 0,
            pend |-> <<>>, work |-> <<>>, st |-> 0, conflict |-> FALSE,
            func |-> 0, dia |-> 0, tipo |-> <<>>, lido |-> {}, atual |-> {},
            conc |-> FALSE, criou |-> FALSE, d |-> 0, fim_mes |-> 0, base |-> 0,
            voltas |-> 0]
InitReq == [p \in Procs |-> IdleReq]

(***************************************************************************)
(* admin_escalas_gerar, statement by statement, for requests served at the *)
(* same time.  Each request has its own session; what a session wrote and  *)
(* has not committed is in its "work" copy of the item table.              *)
(***************************************************************************)

\* SQLite lets one connection write at a time: the first DELETE of a
\* session takes the write lock, commit or rollback gives it back
Locked(p) == \E q \in Procs \ {p} : req[q].pc \in {"mat", "seg_sex", "plantao"}

\* history: another request is between its first read and its last write
EmCurso(p) == \E q \in Procs \ {p} : req[q].pc \notin {"idle", "done"}

\* order_by(Funcionario.nome): the rows of the model are named in id order
RECURSIVE EmOrdem(_)
EmOrdem(S) ==
    IF S = {} THEN <<>>
    ELSE LET i == CHOOSE x \in S : \A y \in S : x <= y IN <<i>> \o EmOrdem(S \ {i})

\* faulty variant: what the failed session wrote is stored
RollbackItens_Parcial(its, work) == work

\* a request that raises never reaches db.session.commit(): the session is
\* rolled back when the request ends and the table keeps its committed rows
RollbackItens(its, work) == its

\* ano, mes, setor read from the form; EscalaMes.query...first()
GBegin(p, ano, mes, setor_raw) ==
    /\ UNCHANGED session
    /\ LET found == FindEscalas(escalas, ano, mes, NormSetor(setor_raw))
           r == [IdleReq EXCEPT !.op = "gerar", !.ano = ano, !.mes = mes,
                                !.setor = setor_raw, !.conc = EmCurso(p)]
       IN /\ req[p].pc \in {"idle", "done"}
          /\ nOps < MaxOps
          /\ nOps' = nOps + 1
          /\ UNCHANGED <<funcionarios, escalas, itens, last>>
          /\ IF found = {}
             THEN req' = [req EXCEPT ![p] = [r EXCEPT !.pc = "insert"]]
             ELSE \E escala_mes \in found :
                     req' = [req EXCEPT ![p] = [r EXCEPT !.pc = "sel", !.em = escala_mes.id]]

\* db.session.add(escala_mes); db.session.commit(): the unique constraint is
\* checked against the rows committed by now, and nothing catches its error
GInsert(p) ==
    /\ UNCHANGED session
    /\ LET novo == [id |-> NextId(escalas), ano |-> req[p].ano, mes |-> req[p].mes,
                    setor |-> NormSetor(req[p].setor)]
       IN /\ req[p].pc = "insert"
          /\ ~Locked(p)
          /\ UNCHANGED <<funcionarios, itens, last, nOps>>
          /\ IF UniqueViolation(escalas, novo)
             THEN /\ UNCHANGED escalas
                  /\ req' = [req EXCEPT ![p].pc = "done", ![p].st = 500, ![p].conflict = TRUE]
             ELSE /\ escalas' = escalas \cup {novo}
                  /\ req' = [req EXCEPT ![p].pc = "sel", ![p].em = novo.id, ![p].criou = TRUE]

\* the employee query; with nobody selected the loop body never runs and the
\* final commit has nothing to store; month_range raises in the first pass
GSelect(p) ==
    /\ UNCHANGED session
    /\ LET sel == Selecionados(funcionarios, NormSetor(req[p].setor)) IN
       /\ req[p].pc = "sel"
       /\ UNCHANGED <<funcionarios, escalas, itens, last, nOps>>
       /\ IF sel = {}
          THEN req' = [req EXCEPT ![p].pc = "done", ![p].st = 302]
          ELSE IF ~ValidDate(req[p].ano, req[p].mes, 1)
               THEN req' = [req EXCEPT ![p].pc = "done", ![p].st = 500]
               ELSE req' = [req EXCEPT ![p].pc = "wait", ![p].pend = EmOrdem(sel)]

\* one pass of the loop: generate_items_for_funcionario for the next employee
GStep(p) ==
    /\ UNCHANGED session
    /\ LET f == Head(req[p].pend)
           antes == IF req[p].pc = "wait" THEN itens ELSE req[p].work
       IN /\ req[p].pc \in {"wait", "mat"}
          /\ req[p].pend # <<>>
          /\ req[p].pc = "wait" => ~Locked(p)
          /\ UNCHANGED <<funcionarios, escalas, itens, last, nOps>>
          /\ req' = [req EXCEPT ![p].pc = "mat",
                                ![p].pend = Tail(req[p].pend),
                                ![p].work = generate_items_for_funcionario(
                                                antes, f, funcionarios[f], req[p].em,
                                                req[p].ano, req[p].mes)]

(***************************************************************************)
(* generate_items_for_funcionario pass by pass: "d" is the day cursor,     *)
(* "voltas" counts the passes of the while loop of the current employee    *)
(***************************************************************************)

\* faulty variant: the cursor is not advanced
Avancar_Parado(d) == d

\* d += timedelta(days=1)
Avancar(d) == d + 1

\* month_range, the delete, the policy test: up to the first "while"
LStart(p) ==
    /\ UNCHANGED session
    /\ LET f == Head(req[p].pend)
           func == funcionarios[f]
           antes == IF req[p].pc = "wait" THEN itens ELSE req[p].work
           rng == month_range(req[p].ano, req[p].mes)
           escala_tipo == NormEscalaTipo(func.escala_tipo)
           base == IF Truthy(func.plantao_base)
                   THEN parse_date_yyyy_mm_dd(func.plantao_base) ELSE 0
           r == [req[p] EXCEPT !.work = DeleteItens(antes, req[p].em, f),
                               !.d = 0, !.fim_mes = 0, !.base = 0, !.voltas = 0]
           volta == [r EXCEPT !.pc = "mat", !.pend = Tail(req[p].pend)]
       IN /\ req[p].pc \in {"wait", "mat"}
          /\ req[p].pend # <<>>
          /\ req[p].pc = "wait" => ~Locked(p)
          /\ UNCHANGED <<funcionarios, escalas, itens, last, nOps>>
          /\ IF escala_tipo = S_SEG_SEX
             THEN req' = [req EXCEPT ![p] = [r EXCEPT !.pc = "seg_sex", !.d = rng[1],
                                                      !.fim_mes = rng[2]]]
             ELSE IF escala_tipo = S_PLANTONISTA
             THEN (IF base = 0
                   THEN req' = [req EXCEPT ![p] = volta]
                   ELSE req' = [req EXCEPT ![p] = [r EXCEPT !.pc = "plantao", !.d = rng[1],
                                                            !.fim_mes = rng[2],
                                                            !.base = base]])
             ELSE req' = [req EXCEPT ![p] = volta]

\* one pass of a while loop: db.session.add(EscalaItem(...)); d += 1 day
LDay(p) ==
    /\ UNCHANGED session
    /\ LET f == Head(req[p].pend)
           novo == IF req[p].pc = "seg_sex"
                   THEN SegSexItem(req[p].em, f, req[p].d)
                   ELSE PlantaoItem(req[p].em, f, req[p].d, req[p].base)
       IN /\ req[p].pc \in {"seg_sex", "plantao"}
          /\ req[p].d <= req[p].fim_mes
          /\ UNCHANGED <<funcionarios, escalas, itens, last, nOps>>
          /\ req' = [req EXCEPT ![p].work = AddItem(req[p].work, novo),
                                ![p].d = Avancar(req[p].d),
                                ![p].voltas = req[p].voltas + 1]

\* the while test fails: return to the loop over the employees
LEnd(p) ==
    /\ UNCHANGED session
    /\ /\ req[p].pc \in {"seg_sex", "plantao"}
       /\ req[p].d > req[p].fim_mes
       /\ UNCHANGED <<funcionarios, escalas, itens, last, nOps>>
       /\ req' = [req EXCEPT ![p].pc = "mat", ![p].pend = Tail(req[p].pend)]

\* db.session.commit() after the loop, then the redirect
GCommit(p) ==
    /\ UNCHANGED session
    /\ /\ req[p].pc = "mat"
       /\ req[p].pend = <<>>
       /\ UNCHANGED <<funcionarios, escalas, last, nOps>>
       /\ itens' = req[p].work
       /\ req' = [req EXCEPT ![p].pc = "done", ![p].st = 302, ![p].work = <<>>]

\* a statement of the loop fails in the storage layer (I/O error, full disk)
GFail(p) ==
    /\ UNCHANGED session
    /\ /\ req[p].pc = "mat"
       /\ UNCHANGED <<funcionarios, escalas, last, nOps>>
       /\ itens' = RollbackItens(itens, req[p].work)
       /\ req' = [req EXCEPT ![p].pc = "done", ![p].st = 500, ![p].work = <<>>]

(***************************************************************************)
(* admin_escala_editar_dia in two steps: the reads, then the flush and     *)
(* commit.  "lido" is the item as the session loaded it, "atual" the same  *)
(* row (same primary key) as it is stored now.                             *)
(***************************************************************************)

\* the checks and the lookup, up to .first()
EBegin(p, escala_mes_id, funcionario_id, dia, tipo_raw) ==
    /\ UNCHANGED session
    /\ LET found == {e \in escalas : e.id = escala_mes_id}
           novo_tipo == Strip(IF Truthy(tipo_raw) THEN tipo_raw ELSE <<>>)
           r == [IdleReq EXCEPT !.op = "editar_dia", !.em = escala_mes_id,
                                !.func = funcionario_id, !.dia = dia,
                                !.tipo = tipo_raw, !.conc = EmCurso(p)]
           fim(st) == req' = [req EXCEPT ![p] = [r EXCEPT !.pc = "done", !.st = st]]
       IN /\ req[p].pc \in {"idle", "done"}
          /\ nOps < MaxOps
          /\ nOps' = nOps + 1
          /\ UNCHANGED <<funcionarios, escalas, itens, last>>
          /\ IF found = {} THEN fim(404)
             ELSE IF novo_tipo \notin TIPOS_VALIDOS THEN fim(400)
             ELSE \E escala \in found :
                  IF ~ValidDate(escala.ano, escala.mes, dia) THEN fim(500)
                  ELSE LET inicio_dia == Combine(Ordinal(escala.ano, escala.mes, dia), 0, 0)
                           achados == ItensDoDia(itens, escala.id, funcionario_id,
                                                 inicio_dia, inicio_dia + 24 * 60)
                           rr == [r EXCEPT !.pc = "ewrite", !.ano = escala.ano,
                                           !.mes = escala.mes]
                       IN IF achados = {}
                          THEN req' = [req EXCEPT ![p] = rr]
                          ELSE \E item \in achados :
                                 req' = [req EXCEPT ![p] =
                                            [rr EXCEPT !.lido = {item}, !.atual = {item}]]

\* the UPDATE the session emits: only the columns whose new value differs
\* from the loaded one, on the row as it is stored now
Atualizar(lido, atual, novo) ==
    [atual EXCEPT !.inicio = IF novo.inicio # lido.inicio THEN novo.inicio ELSE @,
                  !.fim = IF novo.fim # lido.fim THEN novo.fim ELSE @,
                  !.tipo = IF novo.tipo # lido.tipo THEN novo.tipo ELSE @]

\* the other sessions that loaded the same row keep pointing at it
Seguir(p, de, para) ==
    [q \in Procs |->
        IF q # p /\ req[q].pc = "ewrite" /\ req[q].atual = {de}
        THEN [req[q] EXCEPT !.atual = {para}] ELSE req[q]]

\* item.inicio / fim / tipo assigned, db.session.commit()
EWrite(p) ==
    /\ UNCHANGED session
    /\ LET d == Ordinal(req[p].ano, req[p].mes, req[p].dia)
           novo_tipo == Strip(req[p].tipo)
           fim(rq, st) == req' = [rq EXCEPT ![p].pc = "done", ![p].st = st]
       IN /\ req[p].pc = "ewrite"
          /\ ~Locked(p)
          /\ UNCHANGED <<funcionarios, escalas, last, nOps>>
          /\ IF req[p].lido = {}
             THEN IF ForeignKeysOn /\ req[p].func \notin DOMAIN funcionarios
                  THEN /\ UNCHANGED itens
                       /\ fim(req, 500)
                  ELSE /\ itens' = AddItem(itens,
                             AplicarTipo(Placeholder(req[p].em, req[p].func,
                                                     Combine(d, 0, 0)), d, novo_tipo))
                       /\ fim(req, 200)
             ELSE \E lido \in req[p].lido, atual \in req[p].atual :
                    LET novo == AplicarTipo(lido, d, novo_tipo) IN
                    IF novo = lido
                    THEN /\ UNCHANGED itens
                         /\ fim(req, 200)
                    ELSE IF atual \notin DOMAIN itens
                    THEN /\ UNCHANGED itens
                         /\ fim(req, 500)
                    ELSE /\ itens' = AddItem(RemoveItem(itens, atual),
                                             Atualizar(lido, atual, novo))
                         /\ fim(Seguir(p, atual, Atualizar(lido, atual, novo)), 200)

\* the request as one step: what a day edit makes of a table
EditarItens(its, emid, ano, mes, fid, dia, novo_tipo) ==
    LET d == Ordinal(ano, mes, dia)
        inicio_dia == Combine(d, 0, 0)
        achados == ItensDoDia(its, emid, fid, inicio_dia, inicio_dia + 24 * 60)
    IN IF achados = {}
       THEN AddItem(its, AplicarTipo(Placeholder(emid, fid, inicio_dia), d, novo_tipo))
       ELSE LET item == CHOOSE x \in achados : TRUE IN
            AddItem(RemoveItem(its, item), AplicarTipo(item, d, novo_tipo))

\* busy_timeout runs out while another connection holds the write lock
GTimeout(p) ==
    /\ UNCHANGED session
    /\ /\ req[p].pc \in {"insert", "wait"}
       /\ Locked(p)
       /\ UNCHANGED <<funcionarios, escalas, itens, last, nOps>>
       /\ req' = [req EXCEPT ![p].pc = "done", ![p].st = 500]

\* Spec: two employees; generate, edit a day, delete a schedule month
Init ==
    /\ funcionarios = (1 :> Funcionario(S_ATIVO, S_UTI, S_SEG_SEX, None)
                    @@ 2 :> Funcionario(S_ATIVO, S_RH, S_PLANTONISTA, D_2026_01_01))
    /\ escalas = {}
    /\ itens = <<>>
    /\ last = InitLast
    /\ nOps = 0
    /\ req = InitReq
    /\ session = SessaoDirecao

Meses == {<<2026, 2>>}
Setores == {<<>>, S_UTI, S_UTI_SP}
EscalaIds == {1, 2}
FuncIds == 1..3
Dias == {1, 3, 30}
Tipos == {S_EXPEDIENTE, S_FOLGA, S_PLANTAO_24H, S_FOLGA_SP, S_FERIAS}

NextGerar == \E ym \in Meses, setor \in Setores : Gerar(ym[1], ym[2], setor)
NextEditarDia ==
    \E em \in EscalaIds, f \in FuncIds, dia \in Dias, tipo \in Tipos :
        EditarDia(em, f, dia, tipo)
NextExcluir == \E em \in EscalaIds : ExcluirEscala(em)

Next == NextGerar \/ NextEditarDia \/ NextExcluir

Spec == Init /\ [][Next]_vars

\* SpecCal: one employee of any profile; generate over months of every
\* length, edit the employee
InitCal ==
    /\ \E p \in Perfis : funcionarios = (1 :> [p EXCEPT !.plantao_base =
                             IF Truthy(p.plantao_base) THEN p.plantao_base ELSE None])
    /\ escalas = {}
    /\ itens = <<>>
    /\ last = InitLast
    /\ nOps = 0
    /\ req = InitReq
    /\ session = SessaoDirecao

MesesCal == {<<2026, 1>>, <<2026, 2>>, <<2024, 2>>, <<2026, 4>>}

NextGerarCal == \E ym \in MesesCal : Gerar(ym[1], ym[2], <<>>)
NextEditarFuncionario == \E p \in Perfis : EditarFuncionario(1, p)

NextCal == NextGerarCal \/ NextEditarFuncionario

SpecCal == InitCal /\ [][NextCal]_vars

\* SpecMal: the two employees of Spec; requests whose year, month or day is
\* not a calendar value
S_CME == <<"C", "M", "E">>
MesesMal == {<<2026, 2>>, <<2026, 13>>, <<0, 2>>}
SetoresMal == {S_UTI, S_CME}
DiasMal == {-1, 0, 1, 28, 29, 32}
TiposMal == {S_FOLGA, S_PLANTAO_24H}

NextGerarMal == \E ym \in MesesMal, setor \in SetoresMal : Gerar(ym[1], ym[2], setor)
NextEditarDiaMal ==
    \E em \in EscalaIds, dia \in DiasMal, tipo \in TiposMal :
        EditarDia(em, 1, dia, tipo)

NextMal == NextGerarMal \/ NextEditarDiaMal

SpecMal == Init /\ [][NextMal]_vars

\* SpecConc: the two employees of Spec; two workers serve generate requests
\* whose statements interleave
SetoresConc == {<<>>, S_UTI}

NextGBegin ==
    \E p \in Procs, ym \in Meses, setor \in SetoresConc : GBegin(p, ym[1], ym[2], setor)
NextGInsert == \E p \in Procs : GInsert(p)
NextGSelect == \E p \in Procs : GSelect(p)
NextGStep == \E p \in Procs : GStep(p)
NextGCommit == \E p \in Procs : GCommit(p)
NextGFail == \E p \in Procs : GFail(p)
NextGTimeout == \E p \in Procs : GTimeout(p)

NextConc ==
    \/ NextGBegin \/ NextGInsert \/ NextGSelect \/ NextGStep
    \/ NextGCommit \/ NextGFail \/ NextGTimeout

SpecConc == Init /\ [][NextConc]_vars

\* SpecSel: two employees of any status and department; generate with the
\* department blank, padded or named
S_BRANCO == <<" ">>
PerfisSel ==
    { Funcionario(S_ATIVO, S_UTI, S_SEG_SEX, None),
      Funcionario(S_ATIVO, S_RH, S_SEG_SEX, None),
      Funcionario(S_ATIVO, None, S_SEG_SEX, None),
      Funcionario(S_INATIVO, S_UTI, S_SEG_SEX, None) }
SetoresSel == {<<>>, S_BRANCO, S_UTI, S_UTI_SP, S_RH}

InitSel ==
    /\ \E p1 \in PerfisSel, p2 \in PerfisSel : funcionarios = (1 :> p1 @@ 2 :> p2)
    /\ escalas = {}
    /\ itens = <<>>
    /\ last = InitLast
    /\ nOps = 0
    /\ req = InitReq
    /\ session = SessaoDirecao

NextSel == \E ym \in Meses, setor \in SetoresSel : Gerar(ym[1], ym[2], setor)

SpecSel == InitSel /\ [][NextSel]_vars

\* SpecEd: schedule month 1 (February 2026, UTI) generated, employee 1 with
\* entries and employee 2 with none; two workers serve day edits whose
\* reads and writes interleave
ItensIniciais ==
    GerarTodos(<<>>, {1}, 1 :> Funcionario(S_ATIVO, S_UTI, S_SEG_SEX, None), 1, 2026, 2)

InitEd ==
    /\ funcionarios = (1 :> Funcionario(S_ATIVO, S_UTI, S_SEG_SEX, None)
                    @@ 2 :> Funcionario(S_ATIVO, S_RH, S_PLANTONISTA, D_2026_01_01))
    /\ escalas = {[id |-> 1, ano |-> 2026, mes |-> 2, setor |-> S_UTI]}
    /\ itens = ItensIniciais
    /\ last = InitLast
    /\ nOps = 0
    /\ req = InitReq
    /\ session = SessaoDirecao

FuncsEd == {1, 2}
DiasEd == {1, 2}
TiposEd == {S_EXPEDIENTE, S_PLANTAO_24H}

NextEBegin ==
    \E p \in Procs, f \in FuncsEd, dia \in DiasEd, tipo \in TiposEd :
        EBegin(p, 1, f, dia, tipo)
NextEWrite == \E p \in Procs : EWrite(p)

NextEd == NextEBegin \/ NextEWrite

SpecEd == InitEd /\ [][NextEd]_vars

\* SpecTerm: employee 1 of any profile and the anchored rotation employee;
\* one worker generates months of 28 and 31 days pass by pass, with no
\* storage failure, and keeps running until the request is answered
PerfisTerm ==
    { Funcionario(S_ATIVO, S_UTI, S_SEG_SEX, None),
      Funcionario(S_ATIVO, S_UTI, S_PLANTONISTA, <<>>),
      Funcionario(S_ATIVO, S_UTI, S_NOTURNO, D_2026_01_01) }

InitTerm ==
    /\ \E p \in PerfisTerm :
          funcionarios = (1 :> [p EXCEPT !.plantao_base =
                                   IF Truthy(p.plantao_base) THEN p.plantao_base ELSE None]
                       @@ 2 :> Funcionario(S_ATIVO, S_RH, S_PLANTONISTA, D_2026_01_01))
    /\ escalas = {}
    /\ itens = <<>>
    /\ last = InitLast
    /\ nOps = 0
    /\ req = InitReq
    /\ session = SessaoDirecao

MesesTerm == {<<2026, 1>>, <<2026, 2>>}

NextTBegin == \E ym \in MesesTerm : GBegin(1, ym[1], ym[2], <<>>)
NextTInsert == GInsert(1)
NextTSelect == GSelect(1)
NextLStart == LStart(1)
NextLDay == LDay(1)
NextLEnd == LEnd(1)
NextTCommit == GCommit(1)

Andamento ==
    \/ NextTInsert \/ NextTSelect \/ NextLStart \/ NextLDay \/ NextLEnd \/ NextTCommit

NextTerm == NextTBegin \/ Andamento

SpecTerm == InitTerm /\ [][NextTerm]_vars /\ WF_vars(Andamento)

(***************************************************************************)
(* The role gate.  Every schedule route is declared as                     *)
(*   @login_required @direcao_required def handler                         *)
(* so login_required runs first and direcao_required second; each either   *)
(* answers with a redirect or calls the view it wraps.  The session starts *)
(* empty and changes only through login() and logout().                    *)
(***************************************************************************)
Redirect(alvo) ==
    /\ nOps < MaxOps
    /\ nOps' = nOps + 1
    /\ last' = [NoArgs EXCEPT !.loc = alvo] @@ [op |-> "redirect", st |-> 302]
    /\ UNCHANGED <<funcionarios, escalas, itens, req, session>>

login_required(view) ==
    IF "user_id" \notin DOMAIN session
    THEN Redirect("login")
    ELSE view

\* faulty variant: the role is not looked at
direcao_required_Nada(view) == view

direcao_required(view) ==
    IF SessionGet(session, "funcao") # S_DIRECAO
    THEN Redirect("acesso_negado")
    ELSE view

admin_escalas_gerar(ano, mes, setor_raw) ==
    login_required(direcao_required(Gerar(ano, mes, setor_raw)))

admin_escala_editar_dia(escala_mes_id, funcionario_id, dia, tipo_raw) ==
    login_required(direcao_required(
        EditarDia(escala_mes_id, funcionario_id, dia, tipo_raw)))

admin_excluir_escala(escala_mes_id) ==
    login_required(direcao_required(ExcluirEscala(escala_mes_id)))

\* login(): the row found by cpf, senha and status "Ativo" is employee id;
\* funcao is that row's funcao column, which the schedule engine never reads
Login(id, funcao) ==
    LET res(st) == [NoArgs EXCEPT !.func = id] @@ [op |-> "login", st |-> st] IN
    /\ UNCHANGED <<funcionarios, escalas, itens, req, nOps>>
    /\ IF id \in DOMAIN funcionarios /\ funcionarios[id].status = S_ATIVO
       THEN /\ session' = SessaoDe(id, funcao)
            /\ last' = res(302)
       ELSE /\ UNCHANGED session
            /\ last' = res(200)

Logout ==
    /\ session' = SessaoVazia
    /\ last' = NoArgs @@ [op |-> "logout", st |-> 302]
    /\ UNCHANGED <<funcionarios, escalas, itens, req, nOps>>

InitAuth ==
    /\ funcionarios = (1 :> Funcionario(S_ATIVO, S_UTI, S_SEG_SEX, None)
                    @@ 2 :> Funcionario(S_ATIVO, S_RH, S_PLANTONISTA, D_2026_01_01))
    /\ escalas = {}
    /\ itens = <<>>
    /\ last = InitLast
    /\ nOps = 0
    /\ req = InitReq
    /\ session = SessaoVazia

Funcoes == {S_DIRECAO, S_FUNCIONARIO, S_DIRECAO_ASCII}
SetoresAuth == {<<>>, S_UTI}
DiasAuth == {1, 3}
TiposAuth == {S_FOLGA, S_PLANTAO_24H}

NextLogin == \E id \in {1, 3}, funcao \in Funcoes : Login(id, funcao)
NextLogout == Logout
NextAuthGerar ==
    \E ym \in Meses, setor \in SetoresAuth : admin_escalas_gerar(ym[1], ym[2], setor)
NextAuthEditarDia ==
    \E em \in EscalaIds, dia \in DiasAuth, tipo \in TiposAuth :
        admin_escala_editar_dia(em, 1, dia, tipo)
NextAuthExcluir == \E em \in EscalaIds : admin_excluir_escala(em)

NextAuth ==
    NextLogin \/ NextLogout \/ NextAuthGerar \/ NextAuthEditarDia \/ NextAuthExcluir

SpecAuth == InitAuth /\ [][NextAuth]_vars

TypeOK ==
    /\ nOps \in 0..MaxOps
    /\ \A r \in DOMAIN itens : itens[r] >= 1

(***************************************************************************)
(* Reference calendar and helpers of the properties.  The reference values *)
(* are calendar facts, written down and not computed by the model:         *)
(* 2026-01-01 is a Thursday with ordinal 739617, 2026-02-01 a Sunday,      *)
(* 2024-02-01 a Thursday, 2026-04-01 a Wednesday.                          *)
(***************************************************************************)
RefMes(ano, mes) ==
    CASE <<ano, mes>> = <<2026, 1>> -> [dias |-> 31, primeiro |-> 739617, dow |-> 3]
      [] <<ano, mes>> = <<2026, 2>> -> [dias |-> 28, primeiro |-> 739648, dow |-> 6]
      [] <<ano, mes>> = <<2024, 2>> -> [dias |-> 29, primeiro |-> 738917, dow |-> 3]
      [] <<ano, mes>> = <<2026, 4>> -> [dias |-> 30, primeiro |-> 739707, dow |-> 2]

RefBase(s) ==
    CASE s = D_2026_01_01 -> 739617
      [] s = D_2026_02_10 -> 739657
      [] OTHER -> 0

RefDia(ano, mes, dia) == RefMes(ano, mes).primeiro + dia - 1

RefDow(ano, mes, dia) == (RefMes(ano, mes).dow + dia - 1) % 7

RefHora(ord, h, mi) == (ord - 1) * 1440 + h * 60 + mi

ItensDe(its, emid, fid) ==
    {r \in DOMAIN its : r.escala_mes_id = emid /\ r.funcionario_id = fid}

NoDia(its, emid, fid, ord) ==
    {r \in ItensDe(its, emid, fid) :
        r.inicio >= RefHora(ord, 0, 0) /\ r.inicio < RefHora(ord + 1, 0, 0)}

\* exactly one row of the pair starts on the day, and it is the row given
SoEste(its, emid, fid, ord, ini, fim, tipo) ==
    /\ NoDia(its, emid, fid, ord) = {EscalaItem(emid, fid, ini, fim, tipo, None)}
    /\ its[EscalaItem(emid, fid, ini, fim, tipo, None)] = 1

\* no day of the pair holds two rows
SemDuplicados(its, emid, fid) ==
    \A r1 \in ItensDe(its, emid, fid) :
        /\ its[r1] = 1
        /\ \A r2 \in ItensDe(its, emid, fid) :
              (r2.inicio \div 1440) = (r1.inicio \div 1440) => r2 = r1

GerouOk(l) == l.op = "gerar" /\ l.st = 302

SelecionadosDe(l) == Selecionados(funcionarios, NormSetor(l.setor))

\* C1: generating again with the same inputs, right after a generation,
\* leaves the entries exactly as the first generation left them (same rows,
\* same count) and no selected employee has two entries starting on one day.
C1_Idempotence ==
    [][ (GerouOk(last') /\ last'.again) =>
            /\ itens' = itens
            /\ escalas' = escalas
            /\ \A f \in SelecionadosDe(last') : SemDuplicados(itens', last'.em, f)
      ]_vars

C1_Witness ==
    /\ GerouOk(last) /\ last.again
    /\ Cardinality(ItensDe(itens, last.em, 1)) = RefMes(last.ano, last.mes).dias

\* C2: after generating a SEG_SEX employee every day of the month (28, 29,
\* 30 or 31 days) has exactly one entry: EXPEDIENTE 08:00-17:00 from Monday
\* to Friday, FOLGA 00:00-23:59 on Saturday and Sunday, and the employee has
\* no other entry in the schedule month.
C2_Coverage ==
    GerouOk(last) =>
      \A f \in SelecionadosDe(last) :
        funcionarios[f].escala_tipo = S_SEG_SEX =>
          /\ \A dia \in 1..RefMes(last.ano, last.mes).dias :
               LET ord == RefDia(last.ano, last.mes, dia) IN
               IF RefDow(last.ano, last.mes, dia) <= 4
               THEN SoEste(itens, last.em, f, ord, RefHora(ord, 8, 0),
                           RefHora(ord, 17, 0), S_EXPEDIENTE)
               ELSE SoEste(itens, last.em, f, ord, RefHora(ord, 0, 0),
                           RefHora(ord, 23, 59), S_FOLGA)
          /\ Cardinality(ItensDe(itens, last.em, f)) = RefMes(last.ano, last.mes).dias

C2_Witness ==
    /\ GerouOk(last)
    /\ last.ano = 2024 /\ last.mes = 2
    /\ funcionarios[1].escala_tipo = S_SEG_SEX
    /\ 1 \in SelecionadosDe(last)
    /\ Cardinality(ItensDe(itens, last.em, 1)) = 29
    /\ \E r \in ItensDe(itens, last.em, 1) :
          r.inicio = RefHora(738917 + 28, 8, 0) /\ r.tipo = S_EXPEDIENTE

\* C3: after generating a PLANTONISTA_24_96 employee with a valid anchor A
\* every day d of the month has exactly one entry: PLANTAO_24H from 07:00
\* on d to 07:00 on d+1 when d >= A and d - A is a multiple of 5, FOLGA
\* 00:00-23:59 otherwise, days before A included.
C3_Rotation ==
    GerouOk(last) =>
      \A f \in SelecionadosDe(last) :
        (funcionarios[f].escala_tipo = S_PLANTONISTA
           /\ RefBase(funcionarios[f].plantao_base) # 0) =>
          LET A == RefBase(funcionarios[f].plantao_base) IN
          /\ \A dia \in 1..RefMes(last.ano, last.mes).dias :
               LET ord == RefDia(last.ano, last.mes, dia) IN
               IF ord >= A /\ (ord - A) % 5 = 0
               THEN SoEste(itens, last.em, f, ord, RefHora(ord, 7, 0),
                           RefHora(ord + 1, 7, 0), S_PLANTAO_24H)
               ELSE SoEste(itens, last.em, f, ord, RefHora(ord, 0, 0),
                           RefHora(ord, 23, 59), S_FOLGA)
          /\ Cardinality(ItensDe(itens, last.em, f)) = RefMes(last.ano, last.mes).dias

\* anchor 2026-01-01, month 2026-02: Feb 3 (delta 33) is FOLGA, Feb 5
\* (delta 35) is PLANTAO_24H
C3_Witness ==
    /\ GerouOk(last)
    /\ last.ano = 2026 /\ last.mes = 2
    /\ funcionarios[1].escala_tipo = S_PLANTONISTA
    /\ funcionarios[1].plantao_base = D_2026_01_01
    /\ \E r \in ItensDe(itens, last.em, 1) :
          r.inicio = RefHora(739648 + 2, 0, 0) /\ r.tipo = S_FOLGA
    /\ \E r \in ItensDe(itens, last.em, 1) :
          r.inicio = RefHora(739648 + 4, 7, 0) /\ r.tipo = S_PLANTAO_24H

AncoraInvalida == {None, <<>>, D_2026_02_30, D_BARRAS}

\* C4: generating a PLANTONISTA_24_96 employee whose anchor is absent or is
\* not a date written YYYY-MM-DD completes without error and leaves the
\* employee with no entry in the schedule month, earlier entries included.
C4_MissingAnchor ==
    \A f \in DOMAIN funcionarios :
      (last.op = "gerar" /\ f \in SelecionadosDe(last)
         /\ funcionarios[f].escala_tipo = S_PLANTONISTA
         /\ funcionarios[f].plantao_base \in AncoraInvalida) =>
        /\ last.st = 302
        /\ \A e \in FindEscalas(escalas, last.ano, last.mes, NormSetor(last.setor)) :
              ItensDe(itens, e.id, f) = {}

C4_Witness ==
    /\ GerouOk(last)
    /\ funcionarios[1].escala_tipo = S_PLANTONISTA
    /\ funcionarios[1].plantao_base = D_2026_02_30
    /\ 1 \in last.pre
    /\ ItensDe(itens, last.em, 1) = {}

EditouDia(l) == l.op = "editar_dia"

EditouOk(l) == l.op = "editar_dia" /\ l.st = 200

\* the schedule month a request names, when it exists
EscalaDe(escs, l) == CHOOSE e \in escs : e.id = l.em

ExisteEscala(escs, l) == \E e \in escs : e.id = l.em

\* the day of the schedule month a day edit names
DiaEditado(escs, l) == RefDia(EscalaDe(escs, l).ano, EscalaDe(escs, l).mes, l.dia)

\* novo_tipo: the type of the request, trimmed
TipoPedido(l) == Strip(IF Truthy(l.tipo) THEN l.tipo ELSE <<>>)

\* C5: a successful day edit for (schedule month, employee, day) leaves
\* every row that is not a row of that employee starting on that day in that
\* schedule month exactly as it was: other days, other employees and other
\* schedule months keep start, end, type and note.
C5_OverrideIsolation ==
    [][ EditouOk(last') =>
          /\ \A r \in DOMAIN itens \cup DOMAIN itens' :
                ~(/\ r.escala_mes_id = last'.em
                  /\ r.funcionario_id = last'.func
                  /\ r.inicio >= RefHora(DiaEditado(escalas, last'), 0, 0)
                  /\ r.inicio < RefHora(DiaEditado(escalas, last') + 1, 0, 0))
                => Copies(itens', r) = Copies(itens, r)
          /\ escalas' = escalas
          /\ funcionarios' = funcionarios
      ]_vars

C5_Witness ==
    /\ EditouOk(last)
    /\ Cardinality(ItensDe(itens, last.em, last.func)) > 1
    /\ \E r \in DOMAIN itens :
          r.escala_mes_id = last.em /\ r.funcionario_id # last.func
    /\ \E r \in DOMAIN itens : r.escala_mes_id # last.em

ChaveUnica(escs) ==
    \A e1 \in escs : \A e2 \in escs :
        (e1.ano = e2.ano /\ e1.mes = e2.mes /\ e1.setor = e2.setor) => e1 = e2

\* C6: after every generate at most one EscalaMes row exists per
\* (year, month, department), the department null included; a generate for
\* a key that already has a row adds no row and returns that row's id.
C6_Uniqueness ==
    [][ last'.op = "gerar" =>
          /\ ChaveUnica(escalas')
          /\ \A e \in escalas :
                (e.ano = last'.ano /\ e.mes = last'.mes
                   /\ e.setor = NormSetor(last'.setor))
                => (escalas' = escalas /\ last'.st = 302 /\ last'.em = e.id)
      ]_vars

C6_Witness ==
    /\ GerouOk(last) /\ last.again
    /\ NormSetor(last.setor) = None
    /\ \E e \in escalas : e.setor = None /\ e.id = last.em
    /\ \E e \in escalas : e.setor # None

\* C7: in every state no (schedule month, employee, day) has more than one
\* row starting on the day, and right after a successful day edit the
\* edited day has exactly one.
C7_OnePerDay ==
    /\ \A r \in DOMAIN itens : itens[r] = 1
    /\ Cardinality({<<r.escala_mes_id, r.funcionario_id, r.inicio \div 1440>> :
                        r \in DOMAIN itens}) = Cardinality(DOMAIN itens)
    /\ EditouOk(last) =>
          Cardinality(NoDia(itens, last.em, last.func, DiaEditado(escalas, last))) = 1

C7_Witness ==
    /\ EditouOk(last)
    /\ last.func \in last.pre
    /\ Cardinality(ItensDe(itens, last.em, last.func)) = 28
    /\ TipoPedido(last) = S_FOLGA

\* the row the claim expects on the edited day, ON_DUTY starting at hour h
JanelaEsperada(l, ord, h) ==
    LET t == TipoPedido(l) IN
    EscalaItem(l.em, l.func,
               IF t = S_EXPEDIENTE THEN RefHora(ord, h, 0)
               ELSE IF t = S_FOLGA THEN RefHora(ord, 0, 0) ELSE RefHora(ord, 7, 0),
               IF t = S_EXPEDIENTE THEN RefHora(ord, 17, 0)
               ELSE IF t = S_FOLGA THEN RefHora(ord, 23, 59) ELSE RefHora(ord + 1, 7, 0),
               t, None)

\* C8 as written: after a successful day edit the entry of the day has the
\* new type and the window 09:00-17:00 for EXPEDIENTE, 00:00-23:59 for
\* FOLGA, 07:00 to 07:00 of the next day for PLANTAO_24H.
C8_Original ==
    EditouOk(last) =>
        NoDia(itens, last.em, last.func, DiaEditado(escalas, last))
            = {JanelaEsperada(last, DiaEditado(escalas, last), 9)}

\* C8 amended: the same with the window 08:00-17:00 for EXPEDIENTE.
C8_CanonicalWindows ==
    EditouOk(last) =>
        NoDia(itens, last.em, last.func, DiaEditado(escalas, last))
            = {JanelaEsperada(last, DiaEditado(escalas, last), 8)}

C8_Witness ==
    /\ EditouOk(last)
    /\ TipoPedido(last) = S_EXPEDIENTE
    /\ \E r \in ItensDe(itens, last.em, last.func) :
          r.inicio = RefHora(DiaEditado(escalas, last), 8, 0) /\ r.tipo = S_EXPEDIENTE

\* C9: a day edit on an existing schedule month whose type is not
\* EXPEDIENTE, FOLGA or PLANTAO_24H is answered with 400 and changes no row
\* of any table.
C9_TypeValidation ==
    [][ (EditouDia(last') /\ ExisteEscala(escalas, last')
           /\ TipoPedido(last') \notin {S_EXPEDIENTE, S_FOLGA, S_PLANTAO_24H})
        => (last'.st = 400 /\ itens' = itens /\ escalas' = escalas
              /\ funcionarios' = funcionarios)
      ]_vars

C9_Witness ==
    /\ EditouDia(last) /\ last.st = 400
    /\ last.tipo = S_FERIAS
    /\ ItensDe(itens, last.em, last.func) # {}

\* C10: a day edit that names an employee id no employee has is answered
\* with not-found and creates no row; no EscalaItem row ever refers to an
\* employee that does not exist.
C10_UnknownEmployee ==
    /\ (EditouDia(last) /\ ExisteEscala(escalas, last)
          /\ last.func \notin DOMAIN funcionarios
          /\ TipoPedido(last) \in {S_EXPEDIENTE, S_FOLGA, S_PLANTAO_24H}
          /\ last.dia \in 1..28)
       => last.st = 404
    /\ \A r \in DOMAIN itens : r.funcionario_id \in DOMAIN funcionarios

(***************************************************************************)
(* Requests with malformed calendar values                                 *)
(***************************************************************************)
MesValido(ano, mes) == ano \in 1..9999 /\ mes \in 1..12

\* C11: a generation whose month is outside 1..12 (or whose year is not a
\* year) is rejected before any mutation: it stores no schedule month, it
\* creates and deletes no entry, and so every stored schedule month has a
\* month in 1..12.
C11_MalformedMonth ==
    [][ (last'.op = "gerar" /\ ~MesValido(last'.ano, last'.mes)) =>
            /\ last'.st # 302
            /\ escalas' = escalas
            /\ itens' = itens
            /\ \A e \in escalas' : e.mes \in 1..12
      ]_vars

\* the days the reference calendar has for a schedule month; a schedule
\* month that is no calendar month has none
RefDiasDe(e) ==
    IF <<e.ano, e.mes>> \in {<<2026, 1>>, <<2026, 2>>, <<2024, 2>>, <<2026, 4>>}
    THEN 1..RefMes(e.ano, e.mes).dias ELSE {}

\* C12: editing a day that is not a day of the schedule month (0, negative,
\* beyond the month's last day) is rejected before any mutation: the request
\* does not succeed and no entry is created or modified.
C12_MalformedDay ==
    [][ (last'.op = "editar_dia" /\ (\E e \in escalas : e.id = last'.em)
           /\ last'.dia \notin RefDiasDe(CHOOSE e \in escalas : e.id = last'.em)) =>
            /\ last'.st # 200
            /\ itens' = itens
            /\ escalas' = escalas
      ]_vars

\* day 29 of February 2026, asked with a valid type for an employee who has
\* generated entries
C12_Witness ==
    /\ last.op = "editar_dia" /\ last.st = 500
    /\ last.dia = 29 /\ last.func = 1
    /\ \E e \in escalas : e.id = last.em /\ e.ano = 2026 /\ e.mes = 2
    /\ Cardinality(ItensDe(itens, last.em, 1)) = 28


(***************************************************************************)
(* Generation as a batch, and generations that interleave                  *)
(***************************************************************************)

\* C13: the entry deletions and insertions of a generate call reach the
\* committed table in one step, after the last selected employee, and equal
\* the whole batch; a call that fails part-way leaves the committed table
\* with none of its entry changes.
C13_BatchAtomicity ==
    [][ \A p \in Procs :
          /\ (req[p].pc = "mat" /\ req'[p].pc = "done" /\ req'[p].st = 302) =>
                /\ req[p].pend = <<>>
                /\ itens' = GerarTodos(itens,
                                Selecionados(funcionarios, NormSetor(req[p].setor)),
                                funcionarios, req[p].em, req[p].ano, req[p].mes)
          /\ (req[p].pc # "done" /\ req'[p].pc = "done" /\ req'[p].st # 302) =>
                itens' = itens
          /\ (req[p].pc \in {"wait", "mat"} /\ req'[p].pc = "mat") => itens' = itens
      ]_vars

\* a call that selected both employees failed after the first one, with
\* entries of an earlier generation in the table
C13_Witness ==
    \E p \in Procs :
       /\ req[p].pc = "done" /\ req[p].st = 500 /\ ~req[p].conflict
       /\ Len(req[p].pend) = 1
       /\ Cardinality(ItensDe(itens, req[p].em, 1)) = 28

\* C14: however two generate calls for one key interleave, the department
\* being null included, at most one schedule month is stored for the key.
C14_ConcurrentUniqueness ==
    \A a, b \in escalas :
       (a.ano = b.ano /\ a.mes = b.mes /\ a.setor = b.setor) => a.id = b.id

\* C15: a generate call whose insert of the schedule month is rejected as a
\* duplicate recovers: it re-queries and ends in success, never in failure.
C15_DuplicateRecovery ==
    \A p \in Procs :
       (req[p].conflict /\ req[p].pc = "done") => req[p].st = 302


(***************************************************************************)
(* Shape of the entries of a schedule month                                *)
(***************************************************************************)

\* C16: for every schedule month and employee with at least one entry in
\* it, each day of the month has exactly one entry of the pair starting on
\* it; a pair never holds entries for only some days of the month.
C16_MonthPartition ==
    \A e \in escalas :
      \A f \in ComItens(itens, e.id) :
        \A dia \in RefDiasDe(e) :
          LET noDia == NoDia(itens, e.id, f, RefDia(e.ano, e.mes, dia)) IN
          /\ Cardinality(noDia) = 1
          /\ \A r \in noDia : itens[r] = 1

\* C17: right after a successful generation every entry of the schedule
\* month belongs to an employee that generation selected; entries of
\* employees since made inactive, moved away or only edited by hand are gone.
C17_NoOrphans ==
    GerouOk(last) => ComItens(itens, last.em) \subseteq SelecionadosDe(last)


\* the stored policy values that are an alias of, or default to, SEG_SEX,
\* and the ones no policy recognizes
ComoSegSex == {S_diurno, S_Diario, S_DIURNO, S_DIARIO, <<>>}
NaoReconhecidos == {S_NOTURNO}

\* C18: an employee whose policy is the alias DIURNO or DIARIO (any case,
\* surrounding blanks) or is empty gets exactly the SEG_SEX entries; an
\* employee with any other unrecognized policy gets zero entries and the
\* generation still succeeds.
C18_PolicyNormalization ==
    last.op = "gerar" =>
      \A f \in SelecionadosDe(last) :
        /\ funcionarios[f].escala_tipo \in ComoSegSex =>
             /\ last.st = 302
             /\ \A dia \in 1..RefMes(last.ano, last.mes).dias :
                  LET ord == RefDia(last.ano, last.mes, dia) IN
                  IF RefDow(last.ano, last.mes, dia) <= 4
                  THEN SoEste(itens, last.em, f, ord, RefHora(ord, 8, 0),
                              RefHora(ord, 17, 0), S_EXPEDIENTE)
                  ELSE SoEste(itens, last.em, f, ord, RefHora(ord, 0, 0),
                              RefHora(ord, 23, 59), S_FOLGA)
             /\ Cardinality(ItensDe(itens, last.em, f)) = RefMes(last.ano, last.mes).dias
        /\ funcionarios[f].escala_tipo \in NaoReconhecidos =>
             /\ last.st = 302
             /\ ItensDe(itens, last.em, f) = {}

\* " diurno " generated over April 2026: Wednesday 1 April is EXPEDIENTE
C18_Witness ==
    /\ GerouOk(last) /\ last.ano = 2026 /\ last.mes = 4
    /\ funcionarios[1].escala_tipo = S_diurno
    /\ \E r \in ItensDe(itens, last.em, 1) :
          r.inicio = RefHora(739707, 8, 0) /\ r.tipo = S_EXPEDIENTE


(***************************************************************************)
(* Deleting a schedule month                                               *)
(***************************************************************************)
ChaveDe(l) == <<l.ano, l.mes, NormSetor(l.setor)>>

\* C19: deleting a schedule month deletes every entry that references it
\* and leaves the other schedule months and their entries unchanged;
\* deleting an unknown id is a not-found with no mutation; a later
\* generation for a key with no schedule month creates a new one, which
\* holds only what that generation wrote.
C19_CascadeDelete ==
    [][ /\ last'.op = "excluir" =>
             IF \E e \in escalas : e.id = last'.em
             THEN /\ last'.st = 302
                  /\ escalas' = {e \in escalas : e.id # last'.em}
                  /\ \A r \in DOMAIN itens' : r.escala_mes_id # last'.em
                  /\ DOMAIN itens' \subseteq DOMAIN itens
                  /\ \A r \in DOMAIN itens :
                        r.escala_mes_id # last'.em =>
                            (r \in DOMAIN itens' /\ itens'[r] = itens[r])
             ELSE /\ last'.st = 404
                  /\ escalas' = escalas
                  /\ itens' = itens
        /\ (GerouOk(last')
              /\ ~\E e \in escalas : <<e.ano, e.mes, e.setor>> = ChaveDe(last')) =>
             /\ \E e \in escalas' \ escalas :
                   /\ e.id = last'.em
                   /\ <<e.ano, e.mes, e.setor>> = ChaveDe(last')
                   /\ escalas' = escalas \cup {e}
             /\ ComItens(itens', last'.em) \subseteq
                   Selecionados(funcionarios, NormSetor(last'.setor))
      ]_vars

\* a schedule month with entries was deleted while another one, with
\* entries of its own, stays
C19_Witness ==
    /\ last.op = "excluir" /\ last.st = 302
    /\ last.pre # {}
    /\ escalas # {}
    /\ \E e \in escalas : ComItens(itens, e.id) # {}


(***************************************************************************)
(* Who a generation materializes                                           *)
(***************************************************************************)
\* the department a request names: its value without surrounding blanks,
\* None when nothing is left
RefSetor(raw) ==
    CASE raw = <<>> -> None
      [] raw = S_BRANCO -> None
      [] raw = S_UTI -> S_UTI
      [] raw = S_UTI_SP -> S_UTI
      [] raw = S_RH -> S_RH

\* C20: a generation materializes exactly the employees with status Ativo
\* whose department equals the given one, or all Ativo employees when the
\* department is null or blank; it creates no entry for an inactive
\* employee or for an employee of another department.
C20_EmployeeSelection ==
    [][ GerouOk(last') =>
          \A f \in DOMAIN funcionarios :
            IF /\ funcionarios[f].status = S_ATIVO
               /\ (RefSetor(last'.setor) # None =>
                      funcionarios[f].setor = RefSetor(last'.setor))
            THEN Cardinality(ItensDe(itens', last'.em, f)) = RefMes(last'.ano, last'.mes).dias
            ELSE ItensDe(itens', last'.em, f) = ItensDe(itens, last'.em, f)
      ]_vars

\* department " UTI ": the Ativo employee of UTI has the month, the
\* inactive one of UTI has nothing
C20_Witness ==
    /\ GerouOk(last) /\ last.setor = S_UTI_SP
    /\ funcionarios[1] = Funcionario(S_INATIVO, S_UTI, S_SEG_SEX, None)
    /\ funcionarios[2] = Funcionario(S_ATIVO, S_UTI, S_SEG_SEX, None)
    /\ ItensDe(itens, last.em, 1) = {}
    /\ Cardinality(ItensDe(itens, last.em, 2)) = 28


(***************************************************************************)
(* Regeneration after a day edit                                           *)
(***************************************************************************)
\* the entry the policy of employee f gives a day, by the reference
\* calendar: the two policies of the employees of Spec
EsperadoRef(emid, f, ano, mes, dia) ==
    LET ord == RefDia(ano, mes, dia)
        A == RefBase(funcionarios[f].plantao_base)
    IN IF funcionarios[f].escala_tipo = S_SEG_SEX
       THEN (IF RefDow(ano, mes, dia) <= 4
             THEN EscalaItem(emid, f, RefHora(ord, 8, 0), RefHora(ord, 17, 0),
                             S_EXPEDIENTE, None)
             ELSE EscalaItem(emid, f, RefHora(ord, 0, 0), RefHora(ord, 23, 59),
                             S_FOLGA, None))
       ELSE (IF ord >= A /\ (ord - A) % 5 = 0
             THEN EscalaItem(emid, f, RefHora(ord, 7, 0), RefHora(ord + 1, 7, 0),
                             S_PLANTAO_24H, None)
             ELSE EscalaItem(emid, f, RefHora(ord, 0, 0), RefHora(ord, 23, 59),
                             S_FOLGA, None))

\* C21: when a generation follows a successful day edit of (schedule month,
\* employee, day) and still selects the employee, the employee's entries
\* are exactly the policy's set for the month: the edited day has the
\* policy's type and window again and no extra entry remains.
C21_RegenerationReplaces ==
    (GerouOk(last) /\ last.func \in SelecionadosDe(last)) =>
        /\ ItensDe(itens, last.em, last.func) =
              {EsperadoRef(last.em, last.func, last.ano, last.mes, dia) :
                  dia \in 1..RefMes(last.ano, last.mes).dias}
        /\ \A r \in ItensDe(itens, last.em, last.func) : itens[r] = 1

\* employee 2 (rotation anchored on 2026-01-01) was given EXPEDIENTE on
\* 1 February, a FOLGA day of the rotation, and the month was regenerated
C21_Witness ==
    /\ GerouOk(last) /\ last.func = 2 /\ last.dia = 1
    /\ TipoPedido(last) = S_EXPEDIENTE
    /\ 2 \in SelecionadosDe(last)
    /\ NoDia(itens, last.em, 2, 739648) =
          {EscalaItem(last.em, 2, RefHora(739648, 0, 0), RefHora(739648, 23, 59),
                      S_FOLGA, None)}
    /\ Cardinality(ItensDe(itens, last.em, 2)) = 28


(***************************************************************************)
(* The day edit finds or creates                                           *)
(***************************************************************************)
\* C22: a successful day edit of a day that already has an entry of the
\* pair rewrites it in place (the pair keeps its number of entries); of a
\* day with no entry it adds exactly one; either way the stored entry has
\* the requested type and that type's window, and the provisional
\* 00:00-01:00 shell is never what is stored.
C22_FindOrCreate ==
    [][ (EditouOk(last') /\ ExisteEscala(escalas, last')) =>
          LET ord == DiaEditado(escalas, last')
              antes == ItensDe(itens, last'.em, last'.func)
              depois == ItensDe(itens', last'.em, last'.func)
          IN /\ IF NoDia(itens, last'.em, last'.func, ord) # {}
                THEN Cardinality(depois) = Cardinality(antes)
                ELSE Cardinality(depois) = Cardinality(antes) + 1
             /\ NoDia(itens', last'.em, last'.func, ord) = {JanelaEsperada(last', ord, 8)}
             /\ \A r \in depois : itens'[r] = 1
             /\ \A r \in DOMAIN itens' : r.fim # r.inicio + 60
      ]_vars

\* an entry was created for employee 2, who had none in the schedule month
C22_Witness ==
    /\ EditouOk(last) /\ last.func = 2
    /\ 2 \notin last.pre
    /\ 1 \in last.pre
    /\ TipoPedido(last) = S_PLANTAO_24H
    /\ Cardinality(ItensDe(itens, last.em, 2)) = 1


(***************************************************************************)
(* Day edits that interleave                                               *)
(***************************************************************************)
FezEdicao(p) == req[p].op = "editar_dia" /\ req[p].pc = "done" /\ req[p].st = 200

\* the row a finished day edit asked for, by the reference calendar
PedidoRef(p) ==
    LET ord == RefDia(req[p].ano, req[p].mes, req[p].dia)
        t == Strip(req[p].tipo)
    IN IF t = S_EXPEDIENTE
       THEN EscalaItem(req[p].em, req[p].func, RefHora(ord, 8, 0), RefHora(ord, 17, 0), t, None)
       ELSE IF t = S_FOLGA
       THEN EscalaItem(req[p].em, req[p].func, RefHora(ord, 0, 0), RefHora(ord, 23, 59), t, None)
       ELSE EscalaItem(req[p].em, req[p].func, RefHora(ord, 7, 0), RefHora(ord + 1, 7, 0), t, None)

\* C23: when two day edits of the same (schedule month, employee, day) have
\* both finished, however they interleaved and whether or not the day had
\* an entry, exactly one entry starts on the day and it is the entry one of
\* the two asked for.
C23_LastWriterWins ==
    (FezEdicao(1) /\ FezEdicao(2)
       /\ req[1].em = req[2].em /\ req[1].func = req[2].func /\ req[1].dia = req[2].dia) =>
        LET noDia == NoDia(itens, req[1].em, req[1].func,
                           RefDia(req[1].ano, req[1].mes, req[1].dia))
        IN /\ Cardinality(noDia) = 1
           /\ \A r \in noDia : itens[r] = 1 /\ r \in {PedidoRef(1), PedidoRef(2)}

\* what the table is after the day edit of worker p alone
Depois(its, p) ==
    EditarItens(its, req[p].em, req[p].ano, req[p].mes, req[p].func, req[p].dia,
                Strip(req[p].tipo))

\* C24: two day edits of different (employee, day) pairs of one schedule
\* month, however they interleave, leave the table as running them one
\* after the other leaves it, in either order, with both edits applied.
C24_IndependentPairs ==
    (nOps = 2 /\ FezEdicao(1) /\ FezEdicao(2) /\ req[1].em = req[2].em
       /\ <<req[1].func, req[1].dia>> # <<req[2].func, req[2].dia>>) =>
        /\ itens = Depois(Depois(ItensIniciais, 1), 2)
        /\ itens = Depois(Depois(ItensIniciais, 2), 1)
        /\ PedidoRef(1) \in DOMAIN itens
        /\ PedidoRef(2) \in DOMAIN itens

\* worker 2 read while worker 1 was between its read and its write; one
\* edit made an entry for employee 2, the other rewrote one of employee 1
C24_Witness ==
    /\ nOps = 2 /\ FezEdicao(1) /\ FezEdicao(2)
    /\ req[2].conc
    /\ req[1].func = 1 /\ req[2].func = 2
    /\ Cardinality(DOMAIN itens) = 29
    /\ itens # ItensIniciais


(***************************************************************************)
(* Termination of a generation                                             *)
(***************************************************************************)
\* C25: the loop of one employee makes at most 31 passes, its day cursor
\* grows at every pass and never goes beyond the day after the last day of
\* the month, and, with no storage failure, every generate request that has
\* started is answered after its final commit.
C25_BoundedTermination ==
    /\ [](\A p \in Procs :
            /\ req[p].voltas <= 31
            /\ req[p].pc \in {"seg_sex", "plantao"} =>
                  /\ req[p].d <= req[p].fim_mes + 1
                  /\ req[p].voltas = req[p].d - (req[p].fim_mes - RefMes(req[p].ano, req[p].mes).dias + 1))
    /\ [][\A p \in Procs :
            (req[p].pc \in {"seg_sex", "plantao"} /\ req'[p].pc = req[p].pc
               /\ req'[p] # req[p]) => req'[p].d > req[p].d]_vars
    /\ \A p \in Procs :
          (req[p].op = "gerar" /\ req[p].pc # "done")
             ~> (req[p].pc = "done" /\ req[p].st = 302)

\* January 2026 generated for both employees: the loop of the last one
\* made 31 passes and the request was answered
C25_Witness ==
    /\ req[1].op = "gerar" /\ req[1].pc = "done" /\ req[1].st = 302
    /\ req[1].mes = 1 /\ req[1].voltas = 31
    /\ Cardinality(ItensDe(itens, req[1].em, 1)) = 31
    /\ Cardinality(ItensDe(itens, req[1].em, 2)) = 31


(***************************************************************************)
(* Windows and days of the stored entries                                  *)
(***************************************************************************)
\* C26: in every state that generations and day edits reach, an EXPEDIENTE
\* entry runs 08:00-17:00 on its start day, a FOLGA entry 00:00-23:59 on
\* its start day, a PLANTAO_24H entry from 07:00 for exactly 24 hours; no
\* entry of any other type or window is stored by either writer.
C26_TypeWindow ==
    \A r \in DOMAIN itens :
        CASE r.tipo = S_EXPEDIENTE -> r.inicio % 1440 = 8 * 60 /\ r.fim = r.inicio + 9 * 60
          [] r.tipo = S_FOLGA -> r.inicio % 1440 = 0 /\ r.fim = r.inicio + 23 * 60 + 59
          [] r.tipo = S_PLANTAO_24H -> r.inicio % 1440 = 7 * 60 /\ r.fim = r.inicio + 24 * 60
          [] OTHER -> FALSE

\* the generator wrote EXPEDIENTE and FOLGA entries of employee 1, the day
\* edit an EXPEDIENTE entry over a generated FOLGA and, before it, a
\* PLANTAO_24H entry
C26_Witness ==
    /\ EditouOk(last) /\ TipoPedido(last) = S_EXPEDIENTE
    /\ last.func = 1 /\ last.dia = 1
    /\ \E r \in DOMAIN itens : r.tipo = S_PLANTAO_24H
    /\ \E r \in DOMAIN itens : r.tipo = S_FOLGA
    /\ Cardinality({r \in ItensDe(itens, last.em, 1) : r.tipo = S_EXPEDIENTE}) >= 21

\* C27: in every state the start of every entry falls on a day of the year
\* and month of the schedule month it belongs to; no generation and no day
\* edit places a start outside the month.
C27_InsideMonth ==
    \A r \in DOMAIN itens :
        \E e \in escalas :
            /\ e.id = r.escala_mes_id
            /\ \E dia \in RefDiasDe(e) :
                  r.inicio \div 1440 = RefDia(e.ano, e.mes, dia) - 1

\* a PLANTAO_24H entry was written on the last day of February 2026, the
\* only one whose end is in March
C27_Witness ==
    /\ EditouOk(last) /\ last.dia = 28 /\ TipoPedido(last) = S_PLANTAO_24H
    /\ \E r \in ItensDe(itens, last.em, 1) :
          r.inicio = RefHora(739648 + 27, 7, 0) /\ r.fim = RefHora(739648 + 28, 7, 0)
    /\ Cardinality(ItensDe(itens, last.em, 1)) = 28


(***************************************************************************)
(* What a generation leaves alone                                          *)
(***************************************************************************)
\* the employees a request for department raw selects, spelled from the
\* stored rows
SelecionadosRef(raw) ==
    {f \in DOMAIN funcionarios :
        /\ funcionarios[f].status = S_ATIVO
        /\ (RefSetor(raw) # None => funcionarios[f].setor = RefSetor(raw))}

\* C28: a generate request for key K changes entries only inside the
\* schedule month of K and only of the employees it selects; entries of
\* every other schedule month, every other schedule month row and every
\* employee stay as they were.
C28_GenerateFrame ==
    [][ last'.op = "gerar" =>
          /\ funcionarios' = funcionarios
          /\ escalas \subseteq escalas'
          /\ \A e \in escalas' \ escalas :
                /\ e.id = last'.em
                /\ <<e.ano, e.mes, e.setor>> = <<last'.ano, last'.mes, RefSetor(last'.setor)>>
          /\ \A r \in DOMAIN itens \cup DOMAIN itens' :
                (r.escala_mes_id # last'.em
                   \/ r.funcionario_id \notin SelecionadosRef(last'.setor)) =>
                    Copies(itens', r) = Copies(itens, r)
      ]_vars

\* UTI regenerated after a day edit gave employee 2, of RH, an entry in the
\* schedule month: employee 1 has the month, the entry of employee 2 stays
C28_Witness ==
    /\ GerouOk(last) /\ last.func = 2
    /\ 2 \notin SelecionadosRef(last.setor)
    /\ Cardinality(ItensDe(itens, last.em, 2)) = 1
    /\ Cardinality(ItensDe(itens, last.em, 1)) = 28


(***************************************************************************)
(* Generations of one schedule month that interleave                       *)
(***************************************************************************)
\* C29: however two generate requests for one schedule month interleave,
\* the table a request commits has, for each employee the request selects,
\* exactly one entry on each day of the month, and no committed table holds
\* two entries of one employee starting on one day.
C29_ConcurrentRegeneration ==
    [][ /\ \A r \in DOMAIN itens' : itens'[r] = 1
        /\ Cardinality({<<r.escala_mes_id, r.funcionario_id, r.inicio \div 1440>> :
                            r \in DOMAIN itens'}) = Cardinality(DOMAIN itens')
        /\ \A p \in Procs :
             (req[p].op = "gerar" /\ req[p].pc = "mat"
                /\ req'[p].pc = "done" /\ req'[p].st = 302) =>
               \A f \in SelecionadosRef(req[p].setor) :
                 \A dia \in 1..RefMes(req[p].ano, req[p].mes).dias :
                    Cardinality(NoDia(itens', req[p].em, f,
                                      RefDia(req[p].ano, req[p].mes, dia))) = 1
      ]_vars

\* both workers regenerated the schedule month of department null, which an
\* earlier request had created, worker 2 having started while worker 1 was
\* running
C29_Witness ==
    /\ \A p \in Procs : req[p].op = "gerar" /\ req[p].pc = "done" /\ req[p].st = 302
    /\ req[1].em = req[2].em /\ req[1].setor = <<>> /\ req[2].setor = <<>>
    /\ req[2].conc
    /\ ~req[1].criou /\ ~req[2].criou
    /\ Cardinality(ItensDe(itens, req[1].em, 1)) = 28
    /\ Cardinality(ItensDe(itens, req[1].em, 2)) = 28

(***************************************************************************)
(* C30  Schedule mutations are gated by role.  A request for generate,     *)
(* setDay or schedule-month deletion changes the store only when the       *)
(* session holds a user_id and its role is "Direção".  From a session      *)
(* without user_id the request is redirected to login, from a session of   *)
(* another role to access-denied, and in both cases no schedule month and  *)
(* no entry is created, modified or deleted.                               *)
(***************************************************************************)
Autorizada(s) ==
    /\ "user_id" \in DOMAIN s
    /\ "funcao" \in DOMAIN s
    /\ s["funcao"] = S_DIRECAO

C30_RoleGate ==
    [][ /\ (escalas' # escalas \/ itens' # itens) => Autorizada(session)
        /\ (nOps' # nOps /\ ~Autorizada(session)) =>
              /\ last'.op = "redirect"
              /\ last'.st = 302
              /\ last'.loc = IF "user_id" \in DOMAIN session
                             THEN "acesso_negado" ELSE "login"
              /\ escalas' = escalas
              /\ itens' = itens
        /\ (nOps' # nOps /\ Autorizada(session)) =>
              last'.op \in {"gerar", "editar_dia", "excluir"} /\ last'.loc = ""
      ]_vars

\* a logged-in employee whose role is not "Direção" asked for a change of a
\* store that holds a schedule month with entries, and was turned away
C30_Witness ==
    /\ last.op = "redirect"
    /\ last.loc = "acesso_negado"
    /\ "user_id" \in DOMAIN session
    /\ escalas # {}
    /\ DOMAIN itens # {}

====
